---------------------------- MODULE Spec2Model ----------------------------
(***************************************************************************)
(* A model of the maxminddb-writer crate: the bit-indexed trie (node.rs),  *)
(* the data store (data.rs), the value encoder (serializer.rs), the        *)
(* metadata record (metadata.rs) and the Database that owns them (lib.rs). *)
(***************************************************************************)
EXTENDS Integers, Sequences, FiniteSets, TLC

VARIABLES
    db,         \* the Database: [nodes, data, metadata]
    refs,       \* the DataRefs insert_value has returned to the caller
    hist,       \* the insert_node calls made so far, in order: <<[path, data], ...>>
    last,       \* the call just made on db and what it returned
    nvalues,    \* the number of insert_value calls made so far
    twin,       \* a second Database, built by the same calls as db
    twin_last   \* the call just made on twin and what it returned

vars == <<db, refs, hist, last, nvalues, twin, twin_last>>

----------------------------------------------------------------------------
(* Bounds of the model.                                                    *)

\* width of an address in bits (the program's N is 32 or 128)
AddrBits == 3
\* insert_node calls per run
MaxInserts == 2
\* insert_value calls per run
MaxValues == 2
\* insert_value and insert_node calls per run of the specifications that
\* also write the file
MaxWriteValues == 2
MaxWriteInserts == 1
\* insert_value and insert_node calls per run of the specification of the
\* large stores
MaxSizeValues == 2
MaxSizeInserts == 2
\* entries of the description map
MaxDescription == 2
\* write_control is called with every size from 0 to this one, and with the
\* sizes around its thresholds
MaxControlSize == 40
\* the bytes of an address of octets_with_mask (the program's N is 4 or 16)
Octets == 2
\* octets_with_mask is called with every count from 0 to this one, and with
\* the counts around the powers of two up to the whole address space
MaxBlockCount == 8

----------------------------------------------------------------------------
(* usize.  TLC's integers are 32 bits wide and the sizes and pointers of a *)
(* database are not, so a usize is kept as <<hi, lo>>, standing for        *)
(* hi * 2^24 + lo with 0 <= lo < 2^24.  No size of the model comes near    *)
(* 2^64, so usize arithmetic never wraps here.                             *)

Limb == 2^24

\* the limbs of an integer of up to 128 bits
LongLimbs == 6

W(n) == <<n \div Limb, n % Limb>>

W0 == <<0, 0>>

WAdd(a, b) ==
    LET lo == a[2] + b[2]
    IN  <<a[1] + b[1] + (lo \div Limb), lo % Limb>>

WLess(a, b) == a[1] < b[1] \/ (a[1] = b[1] /\ a[2] < b[2])

WLeq(a, b) == a = b \/ WLess(a, b)

\* a - b, for b <= a
WSub(a, b) ==
    IF a[2] >= b[2] THEN <<a[1] - b[1], a[2] - b[2]>>
    ELSE <<a[1] - b[1] - 1, a[2] + Limb - b[2]>>

\* (a >> s) as u8, for 0 <= s <= 24
WShrByte(a, s) ==
    LET hi == IF s <= 16 THEN 0 ELSE (a[1] % 256) * 2^(24 - s)
    IN  (hi + (a[2] \div 2^s)) % 256

\* byte j of a, byte 0 the least significant.  An integer of a type wider
\* than the model's usize (a u64, a u128, an i128) is kept as LongLimbs limbs
\* of 24 bits, the most significant first.
WByte(a, j) ==
    IF Len(a) > 2
    THEN IF j \div 3 < Len(a) THEN (a[Len(a) - (j \div 3)] \div 256^(j % 3)) % 256 ELSE 0
    ELSE IF j < 3 THEN (a[2] \div 256^j) % 256
    ELSE IF j < 7 THEN (a[1] \div 256^(j - 3)) % 256
    ELSE 0

\* the bytes of a, the least significant first
ToLeBytes(a, width) == [i \in 1..width |-> WByte(a, i - 1)]

\* a.to_be_bytes() of an integer type of `width` bytes
ToBeBytes(a, width) == [i \in 1..width |-> WByte(a, width - i)]

\* (a << 4) as u8
WShl4Byte(a) == (a[2] * 16) % 256

\* a < 2^k, for k >= 24
WBelowPow(a, k) == a[1] < 2^(k - 24)

----------------------------------------------------------------------------
(* Vec<u8> and byte sinks.  A byte vector is a sequence of runs <<b, n>>:  *)
(* n copies of the byte b, n >= 1.  A byte written alone is a run of one.  *)

Bytes(s) == [i \in 1..Len(s) |-> <<s[i], 1>>]

Fill(b, n) == IF n = 0 THEN <<>> ELSE << <<b, n>> >>

RECURSIVE VLenRange(_, _, _)
VLenRange(v, lo, hi) ==
    IF lo > hi THEN W0
    ELSE IF lo = hi THEN W(v[lo][2])
    ELSE LET mid == (lo + hi) \div 2
         IN  WAdd(VLenRange(v, lo, mid), VLenRange(v, mid + 1, hi))

\* the number of bytes of v
VLen(v) == VLenRange(v, 1, Len(v))

----------------------------------------------------------------------------
(* serializer.rs: the value encoder.                                       *)

TypeString == 2
TypeDouble == 3
TypeBytes == 4
TypeUint16 == 5
TypeUint32 == 6
TypeMap == 7
TypeInt32 == 8
TypeUint64 == 9
TypeUint128 == 10
TypeArray == 11
TypeBoolean == 14
TypeFloat == 15

\* what a call of the encoder gives: its error ("ok" for none) and the bytes
\* it has put in the sink by the time it returns
Wrote(bytes) == [err |-> "ok", bytes |-> bytes]

\* an error that is swallowed
FailedSilently(err, bytes) == [err |-> "ok", bytes |-> bytes]

Failed(err, bytes) == [err |-> err, bytes |-> bytes]

\* a; b on one sink: b runs only when a returned Ok
Then(a, b) == IF a.err # "ok" THEN a ELSE [err |-> b.err, bytes |-> a.bytes \o b.bytes]

\* a write_control that puts the extended type byte after the bytes of the
\* length
WriteControlTypeLast(type_id, size) ==
    IF WLess(W(16843036), size) THEN Failed("LengthOutOfRange", <<>>)
    ELSE
        LET first == IF type_id <= 7 THEN (type_id * 32) % 256 ELSE 0
            second == IF type_id <= 7 THEN <<>> ELSE <<type_id - 7>>
            bytes_count ==
                IF WLess(size, W(29)) THEN 0
                ELSE IF WLess(size, W(285)) THEN 1
                ELSE IF WLess(size, W(65821)) THEN 2
                ELSE 3
            head == IF bytes_count = 0 THEN first + size[2] ELSE first + 28 + bytes_count
            leftover_size ==
                IF bytes_count = 0 THEN W0
                ELSE IF bytes_count = 1 THEN WSub(size, W(29))
                ELSE IF bytes_count = 2 THEN WSub(size, W(285))
                ELSE WSub(size, W(65821))
            bytes == ToBeBytes(leftover_size, 8)
        IN  Wrote(Bytes(<<head>> \o SubSeq(bytes, 8 - bytes_count + 1, 8) \o second))

\* Serializer::write_control
WriteControl(type_id, size) ==
    IF WLess(W(16843036), size) THEN Failed("LengthOutOfRange", <<>>)
    ELSE
        LET first == IF type_id <= 7 THEN (type_id * 32) % 256 ELSE 0
            second == IF type_id <= 7 THEN <<>> ELSE <<type_id - 7>>
            bytes_count ==
                IF WLess(size, W(29)) THEN 0
                ELSE IF WLess(size, W(285)) THEN 1
                ELSE IF WLess(size, W(65821)) THEN 2
                ELSE 3
            head ==
                IF bytes_count = 0 THEN first + size[2]
                ELSE IF bytes_count = 1 THEN first + 29
                ELSE IF bytes_count = 2 THEN first + 30
                ELSE first + 31
            leftover_size ==
                IF bytes_count = 0 THEN W0
                ELSE IF bytes_count = 1 THEN WSub(size, W(29))
                ELSE IF bytes_count = 2 THEN WSub(size, W(285))
                ELSE WSub(size, W(65821))
            bytes == ToBeBytes(leftover_size, 8)
        IN  Wrote(Bytes(<<head>> \o second \o SubSeq(bytes, 8 - bytes_count + 1, 8)))

\* AsBigEndianSlice::as_big_endian_slice: to_be_bytes() without its leading zero bytes
\* a slice that keeps its leading zero bytes
KeepZeros(slice) == slice

RECURSIVE StripZeros(_)
StripZeros(slice) ==
    IF slice # <<>> /\ Head(slice) = 0 THEN StripZeros(Tail(slice)) ELSE slice

AsBigEndianSlice(v, width) == StripZeros(ToBeBytes(v, width))

\* serialize_u16 / serialize_u32 / serialize_u64
SerializeUnsigned(type_id, v, width) ==
    LET buf == AsBigEndianSlice(v, width)
    IN  Then(WriteControl(type_id, W(Len(buf))), Wrote(Bytes(buf)))

\* serialize_i32: v is the i32 as its unsigned 32-bit pattern
SerializeI32(v) == Then(WriteControl(TypeInt32, W(4)), Wrote(Bytes(ToBeBytes(v, 4))))

\* a conversion that takes every value below 2^32 for an i32
TryIntoU32(neg, mag) ==
    IF ~neg /\ WBelowPow(mag, 32) THEN <<mag>>
    ELSE IF neg /\ WLeq(mag, <<128, 0>>) THEN <<WSub(<<256, 0>>, mag)>>
    ELSE <<>>

\* v.try_into::<i32>() of an i64 [neg, mag]: the i32's bit pattern, or <<>>
TryIntoI32(neg, mag) ==
    IF ~neg /\ WBelowPow(mag, 31) THEN <<mag>>
    ELSE IF neg /\ mag = W0 THEN <<W0>>
    ELSE IF neg /\ WLeq(mag, <<128, 0>>) THEN <<WSub(<<256, 0>>, mag)>>
    ELSE <<>>

\* v.try_into::<i32>() of an i64 or i128 kept as limbs: no i32 has a bit
\* from the 48th on
TryIntoI32Long(neg, mag) ==
    IF \E i \in 1..(Len(mag) - 2) : mag[i] # 0 THEN <<>>
    ELSE TryIntoI32(neg, <<mag[Len(mag) - 1], mag[Len(mag)]>>)

\* serialize_i64 and serialize_i128
SerializeI64(neg, mag) ==
    LET v == IF Len(mag) > 2 THEN TryIntoI32Long(neg, mag) ELSE TryIntoI32(neg, mag)
    IN  IF v = <<>> THEN Failed("IntegerOutOfRange", <<>>) ELSE SerializeI32(v[1])

\* serialize_i8 and serialize_i16: v as i32, then serialize_i32
SerializeSmallSigned(neg, mag) ==
    SerializeI32(IF neg /\ mag # W0 THEN WSub(<<256, 0>>, mag) ELSE mag)

\* serialize_str
SerializeStr(v) == Then(WriteControl(TypeString, VLen(v)), Wrote(v))

\* serialize_bool
SerializeBool(v) == WriteControl(TypeBoolean, IF v THEN W(1) ELSE W0)

(* The values handed to the encoder, as serde's data model sees them:      *)
(*   [k |-> "u16" | "u32" | "u64", v |-> usize]   an unsigned integer      *)
(*   [k |-> "u128", v |-> limbs]                                           *)
(*   [k |-> "i8" | "i16" | "i32" | "i64" | "i128", neg |-> BOOLEAN,        *)
(*    mag |-> usize or limbs]      a signed integer: sign and magnitude   *)
(*   [k |-> "str", bytes |-> byte vector]          a string, as UTF-8      *)
(*   [k |-> "bool", v |-> BOOLEAN]                                         *)
(*   [k |-> "seq", elems |-> <<value, ...>>]       a Vec, array or tuple   *)
(*   [k |-> "map", entries |-> <<<<key, value>>, ...>>]  in iteration order*)
(* A struct is a map whose keys are its field names.                       *)
RECURSIVE Serialize(_), SerializeAll(_, _, _)
Serialize(value) ==
    CASE value.k = "u16" -> SerializeUnsigned(TypeUint16, value.v, 2)
      [] value.k = "u32" -> SerializeUnsigned(TypeUint32, value.v, 4)
      [] value.k = "u64" -> SerializeUnsigned(TypeUint64, value.v, 8)
      [] value.k = "u128" -> SerializeUnsigned(TypeUint128, value.v, 16)
      [] value.k \in {"i8", "i16", "i32"} -> SerializeSmallSigned(value.neg, value.mag)
      [] value.k \in {"i64", "i128"} -> SerializeI64(value.neg, value.mag)
      [] value.k = "str" -> SerializeStr(value.bytes)
      [] value.k = "bool" -> SerializeBool(value.v)
      [] value.k = "seq" ->
            Then(WriteControl(TypeArray, W(Len(value.elems))),
                 SerializeAll(value.elems, 1, Len(value.elems)))
      [] value.k = "map" ->
            Then(WriteControl(TypeMap, W(Len(value.entries))),
                 SerializeAll(
                    [i \in 1..(2 * Len(value.entries)) |->
                        value.entries[(i + 1) \div 2][2 - (i % 2)]],
                    1, 2 * Len(value.entries)))

\* the elements lo..hi one after the other on one sink, stopping at the
\* first error (halved, which gives the same bytes and the same error as
\* taking them one by one)
SerializeAll(elems, lo, hi) ==
    IF lo > hi THEN Wrote(<<>>)
    ELSE IF lo = hi THEN Serialize(elems[lo])
    ELSE LET mid == (lo + hi) \div 2
         IN  Then(SerializeAll(elems, lo, mid), SerializeAll(elems, mid + 1, hi))

----------------------------------------------------------------------------
(* data.rs: DataRef and Datastore.  A DataRef is its index, a usize.       *)

\* an offset that leaves the 16 bytes of the separator out
DataSectionOffsetNoSeparator(index, node_count) == WAdd(node_count, index)

\* DataRef::data_section_offset
DataSectionOffset(index, node_count) == WAdd(WAdd(node_count, W(16)), index)

\* Datastore::len
DatastoreLen(data) == VLen(data.store)

\* an insert that takes the DataRef after the value is written
DatastoreInsertRefAfter(data, value) ==
    LET r == Serialize(value)
        store == data.store \o r.bytes
    IN  [data |-> [store |-> store],
         err |-> r.err,
         index |-> IF r.err = "ok" THEN VLen(store) ELSE W0]

\* Datastore::insert: the store afterwards and the Result returned
DatastoreInsert(data, value) ==
    LET data_ref == VLen(data.store)
        r == Serialize(value)
    IN  [data |-> [store |-> data.store \o r.bytes],
         err |-> r.err,
         index |-> IF r.err = "ok" THEN data_ref ELSE W0]

----------------------------------------------------------------------------
(* node.rs: the trie.  An edge is an Option<Target>: [t |-> "None"],       *)
(* [t |-> "Node", index] or [t |-> "Data", index]; a Node is the pair of   *)
(* its edges for the bits 0 and 1; node i of the tree is nodes[i + 1].     *)

Unset == [t |-> "None", index |-> W0]

\* an edge that leads back to the root whatever node it was made for
TargetNodeRoot(index) == [t |-> "Node", index |-> W0]

TargetNode(index) == [t |-> "Node", index |-> W(index)]

TargetData(index) == [t |-> "Data", index |-> index]

ToInt(w) == w[1] * Limb + w[2]

\* Node::default
NodeDefault == <<Unset, Unset>>

\* NodeTree::default
NodeTreeDefault == <<NodeDefault>>

\* a split that starts the new node empty, as Node::default() would
SplitNodeEmpty(target) == <<Unset, Unset>>

\* the node pushed when the walk splits an edge
SplitNode(target) == <<target, target>>

\* a step on a Node edge that starts again at the root
FollowNodeRoot(nodes, index, target) == 0

\* a last assignment that leaves an edge already set as it is
SetLeafIfUnset(nodes, index, last_bit, data) ==
    IF nodes[index + 1][last_bit + 1].t # "None" THEN nodes
    ELSE [nodes EXCEPT ![index + 1][last_bit + 1] = TargetData(data)]

\* a last assignment that sets both edges of the node
SetLeafBoth(nodes, index, last_bit, data) ==
    [nodes EXCEPT ![index + 1] = <<TargetData(data), TargetData(data)>>]

\* the walk's step on a Node edge: follow it
FollowNode(nodes, index, target) == ToInt(target.index)

\* a last assignment that spares an edge already leading to a subtree
SetLeafKeepSubtree(nodes, index, last_bit, data) ==
    IF nodes[index + 1][last_bit + 1].t = "Node" THEN nodes
    ELSE [nodes EXCEPT ![index + 1][last_bit + 1] = TargetData(data)]

\* the last assignment of insert
SetLeaf(nodes, index, last_bit, data) ==
    [nodes EXCEPT ![index + 1][last_bit + 1] = TargetData(data)]

\* the loop of NodeTree::insert, at node `index` with `rest` still to read
RECURSIVE InsertWalk(_, _, _, _, _)
InsertWalk(nodes, index, last_bit, rest, data) ==
    IF rest = <<>> THEN SetLeaf(nodes, index, last_bit, data)
    ELSE
        LET target == nodes[index + 1][last_bit + 1]
        IN  IF target.t = "Node"
            THEN InsertWalk(nodes, FollowNode(nodes, index, target),
                            Head(rest), Tail(rest), data)
            ELSE
                LET new_index == Len(nodes)
                    pushed == Append(nodes, SplitNode(target))
                    linked == [pushed EXCEPT
                                ![index + 1][last_bit + 1] = TargetNode(new_index)]
                IN  InsertWalk(linked, new_index, Head(rest), Tail(rest), data)

\* NodeTree::insert
NodeTreeInsert(nodes, path, data) ==
    IF path = <<>> THEN nodes
    ELSE InsertWalk(nodes, 0, Head(path), Tail(path), data)

\* an unset edge written as a null pointer
UnsetPtrZero(node_count) == W0

\* the pointer of an unset edge
UnsetPtr(node_count) == node_count

\* Target::to_ptr, and the unwrap_or of Node::write_to
ToPtr(target, node_count) ==
    CASE target.t = "Node" -> target.index
      [] target.t = "Data" -> DataSectionOffset(target.index, node_count)
      [] target.t = "None" -> UnsetPtr(node_count)

\* the ptrs of Node::write_to
NodePtrs(node, node_count) == <<ToPtr(node[1], node_count), ToPtr(node[2], node_count)>>

\* the 6 bytes of a RecordSize::Small record
PackSmall(ptrs) ==
    <<WShrByte(ptrs[1], 16), WShrByte(ptrs[1], 8), WShrByte(ptrs[1], 0),
      WShrByte(ptrs[2], 16), WShrByte(ptrs[2], 8), WShrByte(ptrs[2], 0)>>

\* a | b of two bytes
BitOr(a, b) ==
    LET RECURSIVE Or(_, _, _)
        Or(x, y, n) ==
            IF n = 0 THEN 0
            ELSE (IF x % 2 = 1 \/ y % 2 = 1 THEN 1 ELSE 0)
                 + 2 * Or(x \div 2, y \div 2, n - 1)
    IN  Or(a, b, 8)

\* the 7 bytes of a RecordSize::Medium record
PackMedium(ptrs) ==
    <<WShrByte(ptrs[1], 20), WShrByte(ptrs[1], 12), WShrByte(ptrs[1], 4),
      BitOr(WShl4Byte(ptrs[1]), WShrByte(ptrs[2], 24)),
      WShrByte(ptrs[2], 16), WShrByte(ptrs[2], 8), WShrByte(ptrs[2], 0)>>

\* the 8 bytes of a RecordSize::Large record
PackLarge(ptrs) ==
    <<WShrByte(ptrs[1], 24), WShrByte(ptrs[1], 16), WShrByte(ptrs[1], 8),
      WShrByte(ptrs[1], 0),
      WShrByte(ptrs[2], 24), WShrByte(ptrs[2], 16), WShrByte(ptrs[2], 8),
      WShrByte(ptrs[2], 0)>>

\* Node::write_to
NodeWriteTo(node, record_size, node_count) ==
    LET ptrs == NodePtrs(node, node_count)
    IN  CASE record_size = "Small" -> PackSmall(ptrs)
          [] record_size = "Medium" -> PackMedium(ptrs)
          [] record_size = "Large" -> PackLarge(ptrs)

\* NodeTree::write_to: the records of the nodes, in the order of the vector
NodeTreeWriteTo(nodes, record_size) ==
    LET RECURSIVE from(_)
        from(i) ==
            IF i > Len(nodes) THEN <<>>
            ELSE NodeWriteTo(nodes[i], record_size, W(Len(nodes))) \o from(i + 1)
    IN  Bytes(from(1))

----------------------------------------------------------------------------
(* metadata.rs.                                                            *)

\* METADATA_START_MARKER
MetadataStartMarker == <<171, 205, 239, 77, 97, 120, 77, 105, 110, 100, 46, 99, 111, 109>>

\* RecordSize::choose
Choose(max_ptr_value) ==
    IF WBelowPow(max_ptr_value, 24) THEN "Small"
    ELSE IF WBelowPow(max_ptr_value, 28) THEN "Medium"
    ELSE "Large"

\* Serialize for RecordSize
RecordSizeValue(record_size) ==
    [k |-> "u16",
     v |-> CASE record_size = "Small" -> W(24)
             [] record_size = "Medium" -> W(28)
             [] record_size = "Large" -> W(32)]

\* Serialize for IpVersion
IpVersionValue(ip_version) ==
    [k |-> "u16", v |-> IF ip_version = "V4" THEN W(4) ELSE W(6)]

StrValue(bytes) == [k |-> "str", bytes |-> bytes]

\* the names of the fields of Metadata, as UTF-8
FieldNames ==
    <<
      <<110, 111, 100, 101, 95, 99, 111, 117, 110, 116>>,
      <<114, 101, 99, 111, 114, 100, 95, 115, 105, 122, 101>>,
      <<105, 112, 95, 118, 101, 114, 115, 105, 111, 110>>,
      <<100, 97, 116, 97, 98, 97, 115, 101, 95, 116, 121, 112, 101>>,
      <<108, 97, 110, 103, 117, 97, 103, 101, 115>>,
      <<98, 105, 110, 97, 114, 121, 95, 102, 111, 114, 109, 97, 116, 95,
        109, 97, 106, 111, 114, 95, 118, 101, 114, 115, 105, 111, 110>>,
      <<98, 105, 110, 97, 114, 121, 95, 102, 111, 114, 109, 97, 116, 95,
        109, 105, 110, 111, 114, 95, 118, 101, 114, 115, 105, 111, 110>>,
      <<98, 117, 105, 108, 100, 95, 101, 112, 111, 99, 104>>,
      <<100, 101, 115, 99, 114, 105, 112, 116, 105, 111, 110>>
    >>

(* Metadata.  description is a HashMap<String, String>: its entries in the *)
(* order in which this map iterates them, <<<<key, value>>, ...>>.  That   *)
(* order comes from the map's RandomState, which differs from one map to   *)
(* the next, so it is any order of the entries.                            *)

\* HashMap::insert of a key the map does not hold: the orders in which the
\* map may iterate its entries afterwards
DescriptionInsert(description, key, text) ==
    {[i \in 1..(Len(description) + 1) |->
        IF i < at THEN description[i]
        ELSE IF i = at THEN <<key, text>>
        ELSE description[i - 1]] : at \in 1..(Len(description) + 1)}

\* Metadata::default
MetadataDefault ==
    [node_count |-> W0,
     record_size |-> "Small",
     ip_version |-> "V4",
     database_type |-> <<>>,
     languages |-> <<>>,
     binary_format_major_version |-> W0,
     binary_format_minor_version |-> W0,
     build_epoch |-> W0,
     description |-> <<>>]

\* derive(Serialize) for Metadata: a struct of nine fields, in declaration order
MetadataValue(metadata) ==
    LET field(i, value) == <<StrValue(Bytes(FieldNames[i])), value>>
    IN  [k |-> "map",
         entries |-> <<
            field(1, [k |-> "u32", v |-> metadata.node_count]),
            field(2, RecordSizeValue(metadata.record_size)),
            field(3, IpVersionValue(metadata.ip_version)),
            field(4, StrValue(Bytes(metadata.database_type))),
            field(5, [k |-> "seq",
                      elems |-> [i \in 1..Len(metadata.languages) |->
                                    StrValue(Bytes(metadata.languages[i]))]]),
            field(6, [k |-> "u16", v |-> metadata.binary_format_major_version]),
            field(7, [k |-> "u16", v |-> metadata.binary_format_minor_version]),
            field(8, [k |-> "u64", v |-> metadata.build_epoch]),
            field(9, [k |-> "map",
                      entries |-> [i \in 1..Len(metadata.description) |->
                                    <<StrValue(Bytes(metadata.description[i][1])),
                                      StrValue(Bytes(metadata.description[i][2]))>>]])
         >>]

----------------------------------------------------------------------------
(* paths.rs: the CIDR blocks of a range of addresses.  An address is its   *)
(* Octets bytes, the most significant first.  The counts of the model stay *)
(* below 2^30, so they are kept as plain integers.                         *)

\* u8::trailing_zeros of a byte that is not 0
ByteTrailingZeros(b) == CHOOSE k \in 0..7 : b % 2^k = 0 /\ (b \div 2^k) % 2 = 1

\* trailing_zeros: the loop over s from its last byte down to its i-th
RECURSIVE TrailingZerosFrom(_, _)
TrailingZerosFrom(s, i) ==
    IF i = 0 THEN 0
    ELSE IF s[i] = 0 THEN 8 + TrailingZerosFrom(s, i - 1)
    ELSE ByteTrailingZeros(s[i])

\* trailing_zeros
TrailingZeros(s) == TrailingZerosFrom(s, Len(s))

\* count.ilog2(), for count > 0
Ilog2(count) == CHOOSE k \in 0..29 : 2^k <= count /\ count \div 2 < 2^k

\* the inner loop of octets_with_mask: start with 1 << bit_to_change added to
\* its byte byte_to_change, the carry taken up the bytes and dropped past
\* the first
RECURSIVE Increment(_, _, _)
Increment(start, byte_to_change, bit_to_change) ==
    IF start[byte_to_change + 1] + 2^bit_to_change <= 255
    THEN [start EXCEPT ![byte_to_change + 1] = @ + 2^bit_to_change]
    ELSE
        LET zeroed == [start EXCEPT ![byte_to_change + 1] = 0]
        IN  IF byte_to_change = 0 THEN zeroed
            ELSE Increment(zeroed, byte_to_change - 1, 0)

\* the while loop of octets_with_mask.  N - suffix / 8 - 1 is below 0 when
\* suffix = 8 * N: a build with overflow checks panics at the subtraction,
\* one without wraps it and panics at the index start[byte_to_change].
RECURSIVE OctetsLoop(_, _, _)
OctetsLoop(start, count, result) ==
    IF count = 0 THEN [err |-> "ok", out |-> result]
    ELSE
        LET zeros == TrailingZeros(start)
            log == Ilog2(count)
            suffix == IF zeros < log THEN zeros ELSE log
            mask == Len(start) * 8 - suffix
            pushed == Append(result, <<start, mask>>)
        IN  IF Len(start) < suffix \div 8 + 1 THEN [err |-> "panic", out |-> <<>>]
            ELSE OctetsLoop(Increment(start, Len(start) - suffix \div 8 - 1, suffix % 8),
                            count - 2^suffix, pushed)

\* octets_with_mask, and IpAddrWithMask::from_count that maps its blocks
OctetsWithMask(start, count) == OctetsLoop(start, count, <<>>)

----------------------------------------------------------------------------
(* lib.rs: the Database.                                                   *)

\* Database::default
DatabaseDefault ==
    [nodes |-> NodeTreeDefault, data |-> [store |-> <<>>], metadata |-> MetadataDefault]

\* Database::update_size
UpdateSize(d) ==
    LET node_count == W(Len(d.nodes))
        data_size == DatastoreLen(d.data)
        max_ptr_value == WAdd(WAdd(node_count, data_size), W(16))
    IN  [d EXCEPT !.metadata.node_count = node_count,
                  !.metadata.record_size = Choose(max_ptr_value)]

\* Database::insert_value: the Database afterwards and the Result returned
DbInsertValue(d, value) ==
    LET result == DatastoreInsert(d.data, value)
    IN  [db |-> UpdateSize([d EXCEPT !.data = result.data]),
         err |-> result.err,
         index |-> result.index]

\* Database::insert_node
DbInsertNode(d, path, data) ==
    UpdateSize([d EXCEPT !.nodes = NodeTreeInsert(d.nodes, path, data)])

\* a write_to that leaves the data section separator out
DbWriteToNoSeparator(d) ==
    Then(Wrote(NodeTreeWriteTo(d.nodes, d.metadata.record_size)),
    Then(Wrote(d.data.store),
    Then(Wrote(Bytes(MetadataStartMarker)),
         Serialize(MetadataValue(d.metadata)))))

\* Database::write_to, into an empty Vec<u8>: the Result's error and the sink
DbWriteTo(d) ==
    Then(Wrote(NodeTreeWriteTo(d.nodes, d.metadata.record_size)),
    Then(Wrote(Fill(0, 16)),
    Then(Wrote(d.data.store),
    Then(Wrote(Bytes(MetadataStartMarker)),
         Serialize(MetadataValue(d.metadata))))))

----------------------------------------------------------------------------
(* The callers.                                                            *)

\* the bit paths a caller may hand to insert_node: every prefix of an address
Paths == UNION {[1..n -> {0, 1}] : n \in 0..AddrBits}

Addresses == [1..AddrBits -> {0, 1}]

\* 42u32 and "foo", the values of lib.rs's tests
V42 == [k |-> "u32", v |-> W(42)]

VFoo == StrValue(Bytes(<<102, 111, 111>>))

\* an i64 that does not fit an i32: 2^40
VTooBig == [k |-> "i64", neg |-> FALSE, mag |-> <<65536, 0>>]

\* a tuple whose second element fails after the first is written
VPartial == [k |-> "seq", elems |-> <<[k |-> "u16", v |-> W(1)], VTooBig>>]

SmallValues == {V42, VFoo, VTooBig, VPartial}

Call(op, err, index, out) == [op |-> op, err |-> err, index |-> index, out |-> out]

Init ==
    /\ db = DatabaseDefault
    /\ refs = {}
    /\ hist = <<>>
    /\ last = Call("new", "ok", W0, <<>>)
    /\ nvalues = 0
    /\ twin = DatabaseDefault
    /\ twin_last = Call("new", "ok", W0, <<>>)

\* db.insert_value(value)
InsertValue(value, max) ==
    /\ nvalues < max
    /\ LET r == DbInsertValue(db, value)
       IN  /\ db' = r.db
           /\ refs' = IF r.err = "ok" THEN refs \cup {r.index} ELSE refs
           /\ last' = Call("insert_value", r.err, r.index, <<>>)
    /\ nvalues' = nvalues + 1
    /\ UNCHANGED <<hist, twin, twin_last>>

\* db.insert_node(path, DataRef { index: data }), data a DataRef of this Database
InsertNode(path, data, max) ==
    /\ Len(hist) < max
    /\ db' = DbInsertNode(db, path, data)
    /\ hist' = Append(hist, [path |-> path, data |-> data])
    /\ last' = Call("insert_node", "ok", W0, <<>>)
    /\ UNCHANGED <<refs, nvalues, twin, twin_last>>

\* the paths of the specifications that follow the whole Database: the empty
\* prefix, a root edge, and paths that allocate one and two nodes
WritePaths == {<<>>, <<0>>, <<0, 1>>, <<1, 0, 1>>}

\* the DataRefs of lib.rs's seed_simple_db: 42u32 at 0 and "foo" at 2
SeedRefs == {W(0), W(2)}

\* db.metadata.record_size = record_size, as lib.rs's tests force it
ForceRecordSize(record_size) ==
    /\ db' = [db EXCEPT !.metadata.record_size = record_size]
    /\ last' = Call("force_record_size", "ok", W0, <<>>)
    /\ UNCHANGED <<refs, hist, nvalues, twin, twin_last>>

\* db.write_to(Vec::new())
WriteTo ==
    /\ LET r == DbWriteTo(db)
       IN  last' = Call("write_to", r.err, W0, r.bytes)
    /\ UNCHANGED <<db, refs, hist, nvalues, twin, twin_last>>

InsertTreeNode ==
    \E path \in Paths, data \in SeedRefs : InsertNode(path, data, MaxInserts)

\* the trie under insert_node alone
NextTree == InsertTreeNode

SpecTree == Init /\ [][NextTree]_vars

InsertSmallValue == \E value \in SmallValues : InsertValue(value, MaxValues)

InsertRefNode ==
    \E path \in WritePaths, data \in refs : InsertNode(path, data, MaxInserts)

\* the Database under insert_value, failing or not, and insert_node
Next == InsertSmallValue \/ InsertRefNode

Spec == Init /\ [][Next]_vars

InsertSeedValue == \E value \in {V42, VFoo} : InsertValue(value, MaxWriteValues)

InsertSeedNode ==
    \E path \in WritePaths, data \in refs : InsertNode(path, data, MaxWriteInserts)

ForceAnyRecordSize ==
    \E record_size \in {"Small", "Medium", "Large"} : ForceRecordSize(record_size)

\* the Database as lib.rs's tests drive it: seeded, its record size forced,
\* and written
NextWrite == InsertSeedValue \/ InsertSeedNode \/ ForceAnyRecordSize \/ WriteTo

SpecWrite == Init /\ [][NextWrite]_vars

\* a String of n bytes 'a'
VFilled(n) == StrValue(Fill(97, n))

\* a String whose encoding, 4 control bytes and the text, is 2^24 - 18 bytes:
\* alone in the store of a one-node Database it gives max_ptr_value 2^24 - 1
VNear24 == VFilled(16777194)

\* a Vec of 16 Strings whose encoding is 2^28 - 18 bytes: 2 control bytes, 15
\* Strings of 2^24 bytes encoded and one of 2^24 - 20
VNear28 ==
    [k |-> "seq",
     elems |-> [i \in 1..16 |-> IF i < 16 THEN VFilled(16777212) ELSE VFilled(16777192)]]

\* a Vec of 128 Strings of 2^24 bytes encoded each: 2^31 + 3 bytes
VHalf == [k |-> "seq", elems |-> [i \in 1..128 |-> VFilled(16777212)]]

\* a Vec of 256 Strings of 2^24 bytes encoded each: 2^32 + 3 bytes
VWhole == [k |-> "seq", elems |-> [i \in 1..256 |-> VFilled(16777212)]]

SizeValues == {V42, VNear24, VNear28, VHalf, VWhole}

SizePaths == {<<0>>, <<0, 1>>, <<1, 1>>}

InsertSizeValue == \E value \in SizeValues : InsertValue(value, MaxSizeValues)

InsertSizeNode ==
    \E path \in SizePaths, data \in refs : InsertNode(path, data, MaxSizeInserts)

\* the Database under values that take the store up to and past 2^24, 2^28
\* and 2^32 bytes, on a target whose usize is 64 bits wide
NextSize == InsertSizeValue \/ InsertSizeNode

SpecSize == Init /\ [][NextSize]_vars

\* "de" and "en", the keys of a description, and "x", its text
DescriptionKeys == {<<100, 101>>, <<101, 110>>}

DescriptionText == <<120>>

\* db.insert_value(value) and the same call on twin
TwinInsertValue ==
    \E value \in {V42, VFoo} :
        /\ nvalues < MaxWriteValues
        /\ LET r == DbInsertValue(db, value)
                t == DbInsertValue(twin, value)
           IN  /\ db' = r.db
               /\ twin' = t.db
               /\ refs' = IF r.err = "ok" THEN refs \cup {r.index} ELSE refs
               /\ last' = Call("insert_value", r.err, r.index, <<>>)
               /\ twin_last' = Call("insert_value", t.err, t.index, <<>>)
        /\ nvalues' = nvalues + 1
        /\ UNCHANGED hist

\* db.insert_node(path, data) and the same call on twin
TwinInsertNode ==
    \E path \in WritePaths, data \in refs :
        /\ Len(hist) < MaxWriteInserts
        /\ db' = DbInsertNode(db, path, data)
        /\ twin' = DbInsertNode(twin, path, data)
        /\ hist' = Append(hist, [path |-> path, data |-> data])
        /\ last' = Call("insert_node", "ok", W0, <<>>)
        /\ twin_last' = Call("insert_node", "ok", W0, <<>>)
        /\ UNCHANGED <<refs, nvalues>>

\* db.metadata.description.insert(key, text) and the same call on twin, for a
\* key neither map has: each map puts the entry where its own hasher does
TwinDescribe ==
    \E key \in DescriptionKeys :
        /\ Len(db.metadata.description) < MaxDescription
        /\ \A i \in 1..Len(db.metadata.description) : db.metadata.description[i][1] # key
        /\ \E d \in DescriptionInsert(db.metadata.description, key, DescriptionText),
              t \in DescriptionInsert(twin.metadata.description, key, DescriptionText) :
                /\ db' = [db EXCEPT !.metadata.description = d]
                /\ twin' = [twin EXCEPT !.metadata.description = t]
        /\ last' = Call("describe", "ok", W0, <<>>)
        /\ twin_last' = Call("describe", "ok", W0, <<>>)
        /\ UNCHANGED <<refs, hist, nvalues>>

\* db.metadata.ip_version = ip_version, and the same on twin
TwinSetIpVersion ==
    \E ip_version \in {"V4", "V6"} :
        /\ db' = [db EXCEPT !.metadata.ip_version = ip_version]
        /\ twin' = [twin EXCEPT !.metadata.ip_version = ip_version]
        /\ last' = Call("set_ip_version", "ok", W0, <<>>)
        /\ twin_last' = Call("set_ip_version", "ok", W0, <<>>)
        /\ UNCHANGED <<refs, hist, nvalues>>

\* db.write_to(Vec::new()) and twin.write_to(Vec::new())
TwinWriteTo ==
    /\ LET r == DbWriteTo(db)
           t == DbWriteTo(twin)
       IN  /\ last' = Call("write_to", r.err, W0, r.bytes)
           /\ twin_last' = Call("write_to", t.err, W0, t.bytes)
    /\ UNCHANGED <<db, twin, refs, hist, nvalues>>

\* two Databases built by the same calls
NextTwin ==
    TwinInsertValue \/ TwinInsertNode \/ TwinDescribe \/ TwinSetIpVersion \/ TwinWriteTo

SpecTwin == Init /\ [][NextTwin]_vars

\* the integer of LongLimbs limbs whose big-endian bytes are b
LongFromBytes(b) ==
    [i \in 1..LongLimbs |-> b[3 * i - 2] * 65536 + b[3 * i - 1] * 256 + b[3 * i]]

\* the integers of `width` bytes that begin, after `zeros` zero bytes, with
\* the byte `first` and go on with the byte `rest`
Patterned(width, zeros, first, rest) ==
    LongFromBytes([i \in 1..(3 * LongLimbs) |->
        IF i <= 3 * LongLimbs - width + zeros THEN 0
        ELSE IF i = 3 * LongLimbs - width + zeros + 1 THEN first
        ELSE rest])

WidthOf(kind) ==
    CASE kind \in {"i8"} -> 1
      [] kind \in {"u16", "i16"} -> 2
      [] kind \in {"u32", "i32"} -> 4
      [] kind \in {"u64", "i64"} -> 8
      [] kind \in {"u128", "i128"} -> 16

\* unsigned integers of every type and every number of significant bytes, 0
\* and the greatest of each type among them
UnsignedValues ==
    UNION {{[k |-> kind, v |-> Patterned(WidthOf(kind), zeros, first, rest)] :
                zeros \in 0..(WidthOf(kind) - 1), first \in {0, 1, 128, 255},
                rest \in {0, 255}} :
           kind \in {"u16", "u32", "u64", "u128"}}

\* magnitudes of 1, 2, 4, 5, 7, 8 and 16 bytes, as limbs: 0, 1, 127, 128,
\* 2^15 - 1, 2^15, 2^31 - 1, 2^31, 2^31 + 1, 2^32, 2^48, 2^63 - 1, 2^63,
\* 2^127 - 1 and 2^127 among them
Magnitudes ==
    {LongFromBytes([i \in 1..(3 * LongLimbs) |->
        IF i < 3 * LongLimbs - at THEN 0
        ELSE IF i = 3 * LongLimbs - at THEN first
        ELSE rest]) :
        at \in {0, 1, 3, 4, 6, 7, 15}, first \in {0, 1, 127, 128}, rest \in {0, 1, 255}}

\* mag < 2^bits, or mag = 2^bits when eq: the magnitudes of an integer type
MagnitudeFits(mag, bits, eq) ==
    LET limb == LongLimbs - (bits \div 24)
        low == 2^(bits % 24)
    IN  \/ /\ \A i \in 1..(limb - 1) : mag[i] = 0
           /\ mag[limb] < low
        \/ /\ eq
           /\ mag = [i \in 1..LongLimbs |-> IF i = limb THEN low ELSE 0]

\* value.serialize(&mut Serializer::new(Vec::new())) of an unsigned integer
EncodeUnsigned ==
    \E value \in UnsignedValues :
        /\ LET r == Serialize(value)
           IN  last' = [op |-> "serialize", err |-> r.err, index |-> W0,
                        out |-> r.bytes, value |-> value]
        /\ UNCHANGED <<db, refs, hist, nvalues, twin, twin_last>>

\* value.serialize(&mut Serializer::new(Vec::new())) of a signed integer of
\* the type `kind`: an i8, i16 or i32 is handed over as a usize magnitude with
\* its sign, an i64 or i128 as limbs
EncodeSigned ==
    \E kind \in {"i8", "i16", "i32", "i64", "i128"}, neg \in BOOLEAN, mag \in Magnitudes :
        /\ MagnitudeFits(mag, 8 * WidthOf(kind) - 1, neg)
        /\ neg => \E i \in 1..LongLimbs : mag[i] # 0
        /\ LET value == [k |-> kind, neg |-> neg,
                         mag |-> IF kind \in {"i64", "i128"} THEN mag
                                 ELSE <<mag[LongLimbs - 1], mag[LongLimbs]>>]
               r == Serialize(value)
           IN  last' = [op |-> "serialize", err |-> r.err, index |-> W0,
                        out |-> r.bytes, value |-> value]
        /\ UNCHANGED <<db, refs, hist, nvalues, twin, twin_last>>

\* the encoder alone, on an empty sink, for the integers
NextEncode == EncodeUnsigned \/ EncodeSigned

SpecEncode == Init /\ [][NextEncode]_vars

\* the addresses octets_with_mask is called with
StartOctets == [1..Octets -> {0, 1, 128, 240, 255}]

\* the number of addresses
AddressSpace == 2^(8 * Octets)

\* the counts octets_with_mask is called with
BlockCounts ==
    (0..MaxBlockCount) \cup
    {255, 256, 257, AddressSpace \div 2, AddressSpace - 1, AddressSpace, AddressSpace + 1}

\* octets_with_mask(start, count)
BlocksFromCount ==
    \E start \in StartOctets, count \in BlockCounts :
        /\ LET r == OctetsWithMask(start, count)
           IN  last' = [op |-> "octets_with_mask", err |-> r.err, index |-> W0,
                        out |-> r.out, start |-> start, count |-> count]
        /\ UNCHANGED <<db, refs, hist, nvalues, twin, twin_last>>

\* octets_with_mask alone
NextBlocks == BlocksFromCount

SpecBlocks == Init /\ [][NextBlocks]_vars

\* the type codes of TypeId
TypeIds ==
    {TypeString, TypeDouble, TypeBytes, TypeUint16, TypeUint32, TypeMap, TypeInt32,
     TypeUint64, TypeUint128, TypeArray, TypeBoolean, TypeFloat}

\* the sizes write_control is called with: the small ones, those on either
\* side of 285, 65821 and the limit 16843036, and 2^25
ControlSizes ==
    {W(n) : n \in (0..MaxControlSize) \cup
                  {284, 285, 286, 65820, 65821, 65822,
                   16843035, 16843036, 16843037, 16843038, 33554432}}

\* Serializer::new(Vec::new()).write_control(type_id, size)
WriteControlCall ==
    \E type_id \in TypeIds, size \in ControlSizes :
        /\ LET r == WriteControl(type_id, size)
           IN  last' = [op |-> "write_control", err |-> r.err, index |-> W0,
                        out |-> r.bytes, type_id |-> type_id, size |-> size]
        /\ UNCHANGED <<db, refs, hist, nvalues, twin, twin_last>>

\* write_control alone, on an empty sink
NextControl == WriteControlCall

SpecControl == Init /\ [][NextControl]_vars

----------------------------------------------------------------------------
(* A reader of the file, as the MaxMind DB format has it walk the records: *)
(* a pointer below node_count is the next node, node_count itself is "no   *)
(* data", and a pointer v above it is the data section offset              *)
(* v - node_count - 16.                                                    *)

NoData == [kind |-> "none", index |-> W0]

Found(index) == [kind |-> "data", index |-> index]

BadPointer == [kind |-> "bad", index |-> W0]

\* what the pointer v means to a reader
Resolve(v, node_count) ==
    IF v = node_count THEN NoData
    ELSE IF WLess(v, WAdd(node_count, W(16))) THEN BadPointer
    ELSE Found(WSub(v, WAdd(node_count, W(16))))

\* the walk from `node` along the bits of addr from the i-th on
RECURSIVE Walk(_, _, _, _)
Walk(nodes, node, addr, i) ==
    IF i > Len(addr) THEN NoData
    ELSE
        LET node_count == W(Len(nodes))
            v == NodePtrs(nodes[node + 1], node_count)[addr[i] + 1]
        IN  IF WLess(v, node_count) THEN Walk(nodes, ToInt(v), addr, i + 1)
            ELSE Resolve(v, node_count)

Lookup(nodes, addr) == Walk(nodes, 0, addr, 1)

IsPrefix(p, a) == Len(p) <= Len(a) /\ SubSeq(a, 1, Len(p)) = p

IsProperPrefix(p, q) == IsPrefix(p, q) /\ Len(p) < Len(q)

\* no prefix inserted is empty or a prefix of another one inserted
NonNested(h) ==
    /\ \A i \in 1..Len(h) : Len(h[i].path) >= 1
    /\ \A i, j \in 1..Len(h) : i # j => ~IsPrefix(h[i].path, h[j].path)

\* the inserts of h whose prefix covers addr
Covering(h, addr) == {i \in 1..Len(h) : IsPrefix(h[i].path, addr)}

----------------------------------------------------------------------------
(* The claims.                                                             *)

\* C1: when no inserted prefix is empty or a prefix of another, the reader's
\* walk for an address returns the data of the prefix that covers it, and
\* "no data" when none does.
C1_NonNestedLookup ==
    NonNested(hist) =>
        \A addr \in Addresses :
            IF Covering(hist, addr) = {} THEN Lookup(db.nodes, addr) = NoData
            ELSE \A i \in Covering(hist, addr) :
                    Lookup(db.nodes, addr) = Found(hist[i].data)

\* two prefixes with different data, neither under the other, and an address
\* that neither covers
C1_Witness ==
    /\ Len(hist) = 2
    /\ NonNested(hist)
    /\ hist[1].data # hist[2].data
    /\ \E a, b, c \in Addresses :
        /\ Lookup(db.nodes, a) = Found(hist[1].data)
        /\ Lookup(db.nodes, b) = Found(hist[2].data)
        /\ Covering(hist, c) = {} /\ Lookup(db.nodes, c) = NoData

\* what C2 says of a step insert(q, d2) that comes right after insert(p, d1),
\* for p a proper prefix of q of at least min_len bits: the addresses under p
\* and not under q resolve to d1, those under q to d2, and each node the step
\* allocated keeps d1 on the side the path q does not take
C2_Step(min_len) ==
    (Len(hist) >= 1 /\ Len(hist') = Len(hist) + 1) =>
        LET p == hist[Len(hist)].path
            d1 == hist[Len(hist)].data
            q == hist'[Len(hist')].path
            d2 == hist'[Len(hist')].data
            before == db.nodes
            after == db'.nodes
        IN  (Len(p) >= min_len /\ IsProperPrefix(p, q)) =>
                /\ \A addr \in Addresses :
                    /\ (IsPrefix(p, addr) /\ ~IsPrefix(q, addr)) =>
                            Lookup(after, addr) = Found(d1)
                    /\ IsPrefix(q, addr) => Lookup(after, addr) = Found(d2)
                /\ Len(after) = Len(before) + Len(q) - Len(p)
                /\ \A j \in 1..(Len(q) - Len(p)) :
                    after[Len(before) + j][2 - q[Len(p) + j]] = TargetData(d1)

\* C2 as stated: for every p that is a proper prefix of q, the empty p too
C2_Original == [][C2_Step(0)]_vars

\* C2, amended: after insert(p, d1) and then insert(q, d2), p a proper prefix
\* of q and not empty, every address under p and not under q resolves to d1,
\* every address under q to d2, and each node allocated by the second insert
\* carries d1 on the side q leaves.
C2_SplitPreserves == [][C2_Step(1)]_vars

\* a finer prefix two bits below a coarser one with other data: two splits
C2_Witness ==
    /\ Len(hist) = 2
    /\ Len(hist[1].path) >= 1
    /\ IsProperPrefix(hist[1].path, hist[2].path)
    /\ Len(hist[2].path) = Len(hist[1].path) + 2
    /\ hist[1].data # hist[2].data
    /\ Len(db.nodes) >= 3

\* the addresses under q after insert(q, d2) and then insert(p, d1), p a
\* proper prefix of q and not empty, resolve to the data of the insert
\* numbered `winner` of the two
C3_After(winner) ==
    Len(hist) >= 2 =>
        LET q == hist[Len(hist) - 1].path
            p == hist[Len(hist)].path
            d == hist[Len(hist) - 2 + winner].data
        IN  (Len(p) >= 1 /\ IsProperPrefix(p, q)) =>
                \A addr \in Addresses :
                    IsPrefix(q, addr) => Lookup(db.nodes, addr) = Found(d)

\* C3 as stated: the addresses under q still resolve to d2
C3_Original == C3_After(1)

\* C3, amended: after insert(q, d2) and then insert(p, d1), p a proper prefix
\* of q and not empty, the addresses under q resolve to d1: the later, coarser
\* insert overwrites the edge that led to q's subtree.
C3_CoarserOverwrites == C3_After(2)

\* a coarser prefix inserted right after a finer one below it, with other data
C3_Witness ==
    /\ Len(hist) = 2
    /\ Len(hist[2].path) >= 1
    /\ IsProperPrefix(hist[2].path, hist[1].path)
    /\ hist[1].data # hist[2].data
    /\ \E addr \in Addresses :
        IsPrefix(hist[1].path, addr) /\ Lookup(db.nodes, addr) = Found(hist[2].data)

\* the width in bits of the records of a file of this record size
RecordBits(record_size) ==
    CASE record_size = "Small" -> 24
      [] record_size = "Medium" -> 28
      [] record_size = "Large" -> 32

\* the bytes of the runs lo..hi of the byte vector v, one by one
RECURSIVE FlatRange(_, _, _)
FlatRange(v, lo, hi) ==
    IF lo > hi THEN <<>>
    ELSE IF lo = hi THEN [i \in 1..v[lo][2] |-> v[lo][1]]
    ELSE LET mid == (lo + hi) \div 2
         IN  FlatRange(v, lo, mid) \o FlatRange(v, mid + 1, hi)

\* a byte vector of the size of a small file as the sequence of its bytes
Flat(v) == FlatRange(v, 1, Len(v))

\* the n bytes of the byte sequence f from the (0-based) offset k on
Cut(f, k, n) == SubSeq(f, k + 1, k + n)

\* C4: the file write_to gives is, with nothing in between: the record of
\* each node in allocation order, record_size / 4 bytes each; 16 zero bytes;
\* the bytes of the data store as they are; the 14 bytes of the marker; the
\* metadata map.  So byte k of the store is at offset
\* node_count * record_bytes + 16 + k of the file.
C4_FileLayout ==
    last.op = "write_to" =>
        LET out == Flat(last.out)
            node_count == Len(db.nodes)
            record_bytes == RecordBits(db.metadata.record_size) \div 4
            store == Flat(db.data.store)
            separator == node_count * record_bytes
            data_start == separator + 16
            marker == data_start + Len(store)
            meta == marker + 14
            map == Flat(Serialize(MetadataValue(db.metadata)).bytes)
        IN  /\ last.err = "ok"
            /\ record_bytes \in {6, 7, 8}
            /\ \A k \in 0..(node_count - 1) :
                Cut(out, k * record_bytes, record_bytes)
                    = NodeWriteTo(db.nodes[k + 1], db.metadata.record_size, W(node_count))
            /\ Cut(out, separator, 16) = [i \in 1..16 |-> 0]
            /\ \A k \in 0..(Len(store) - 1) : out[data_start + k + 1] = store[k + 1]
            /\ Cut(out, marker, 14) = MetadataStartMarker
            /\ out[meta + 1] = 7 * 32 + 9
            /\ Cut(out, meta, Len(map)) = map
            /\ Len(out) = meta + Len(map)

\* a file written for a trie of three nodes and a store of two values
C4_Witness ==
    /\ last.op = "write_to"
    /\ Len(db.nodes) = 3
    /\ refs = SeedRefs
    /\ Len(Flat(last.out)) > 3 * 6 + 16 + 6 + 14

\* C5: every pointer of a node record means to a reader what the edge is: a
\* Node(i) edge is written as i, below node_count; an unset edge as
\* node_count; a Data(d) edge as node_count + 16 + d.index, with d.index
\* inside the data section; and no pointer falls in the 16 values between.
C5_PointersUnambiguous ==
    LET node_count == W(Len(db.nodes))
    IN  \A k \in 1..Len(db.nodes), side \in 1..2 :
            LET target == db.nodes[k][side]
                v == NodePtrs(db.nodes[k], node_count)[side]
            IN  /\ target.t = "Node" => v = target.index /\ WLess(v, node_count)
                /\ target.t = "None" => v = node_count /\ Resolve(v, node_count) = NoData
                /\ target.t = "Data" =>
                    /\ v = WAdd(WAdd(node_count, W(16)), target.index)
                    /\ WLess(target.index, DatastoreLen(db.data))
                    /\ Resolve(v, node_count) = Found(target.index)
                /\ ~(WLess(node_count, v) /\ WLess(v, WAdd(node_count, W(16))))

\* a trie with a Node edge, an unset edge and Data edges for two DataRefs
C5_Witness ==
    /\ \E k \in 1..Len(db.nodes), side \in 1..2 : db.nodes[k][side].t = "Node"
    /\ \E k \in 1..Len(db.nodes), side \in 1..2 : db.nodes[k][side].t = "None"
    /\ \E k \in 1..Len(db.nodes), side \in 1..2 : db.nodes[k][side] = TargetData(W0)
    /\ \E k \in 1..Len(db.nodes), side \in 1..2 :
        db.nodes[k][side].t = "Data" /\ db.nodes[k][side].index # W0

\* the node_count a reader finds in the metadata of the file `out`, whose
\* metadata map begins at the offset meta: the map's control byte, the key
\* "node_count" (a control byte and ten bytes), then an unsigned integer of
\* as many big-endian bytes as the low five bits of its control byte say
WrittenNodeCount(out, meta) ==
    LET at == meta + 1 + 11
        n == out[at + 1] % 32
        payload == Cut(out, at + 1, n)
        RECURSIVE be(_)
        be(i) == IF i = 0 THEN 0 ELSE be(i - 1) * 256 + payload[i]
    IN  be(n)

\* C6: the node_count that write_to writes in the metadata is the number of
\* node records it has written before it, which is at least 1, on a Database
\* no insert was ever called on too.
C6_NodeCountWritten ==
    last.op = "write_to" =>
        LET record_bytes == RecordBits(db.metadata.record_size) \div 4
            records == Len(NodeTreeWriteTo(db.nodes, db.metadata.record_size)) \div record_bytes
            meta == records * record_bytes + 16 + Len(Flat(db.data.store)) + 14
        IN  /\ records >= 1
            /\ records = Len(db.nodes)
            /\ WrittenNodeCount(Flat(last.out), meta) = records

\* node_count + data_size + 16 of the Database
MaxPtrValue == WAdd(WAdd(W(Len(db.nodes)), DatastoreLen(db.data)), W(16))

\* C7: after any calls of insert_value and insert_node, record_size is the
\* smallest w of 24, 28 and 32 with node_count + data_size + 16 < 2^w: the
\* sum is below 2^record_size and below no smaller width's power; 24 exactly
\* when the sum is below 2^24, 28 when it is in [2^24, 2^28), 32 otherwise.
C7_SmallestAdmitting ==
    LET bits == RecordBits(db.metadata.record_size)
    IN  /\ WBelowPow(MaxPtrValue, bits)
        /\ \A w \in {24, 28, 32} : w < bits => ~WBelowPow(MaxPtrValue, w)
        /\ bits = 24 <=> WBelowPow(MaxPtrValue, 24)
        /\ bits = 28 <=> (~WBelowPow(MaxPtrValue, 24) /\ WBelowPow(MaxPtrValue, 28))
        /\ bits = 32 <=> ~WBelowPow(MaxPtrValue, 28)

\* the pointer of the given side (0 left, 1 right) of record k of the file
\* `out`, as a reader of the MaxMind DB format takes it from a record of
\* `bits` bits a pointer
ReadPtr(out, bits, k, side) ==
    LET rec == Cut(out, k * (bits \div 4), bits \div 4)
        be3(b) == rec[b + 1] * 65536 + rec[b + 2] * 256 + rec[b + 3]
    IN  CASE bits = 24 -> <<0, be3(3 * side)>>
          [] bits = 28 ->
                <<IF side = 0 THEN rec[4] \div 16 ELSE rec[4] % 16, be3(4 * side)>>
          [] bits = 32 -> <<rec[4 * side + 1], be3(4 * side + 1)>>

\* the reader's walk through the records of the file from `node` along the
\* bits of addr from the i-th on
RECURSIVE ReadWalk(_, _, _, _, _, _)
ReadWalk(out, bits, node_count, node, addr, i) ==
    IF i > Len(addr) THEN NoData
    ELSE
        LET v == ReadPtr(out, bits, node, addr[i])
        IN  IF WLess(v, W(node_count))
            THEN ReadWalk(out, bits, node_count, ToInt(v), addr, i + 1)
            ELSE Resolve(v, W(node_count))

\* C8: whatever width the record size is forced to, the reader takes from
\* each record of the file the pair of pointers that was packed into it,
\* when both are below 2^width, and so the lookup of every address in the
\* file is the lookup in the trie, the same at the three widths.
C8_RecordsDecode ==
    last.op = "write_to" =>
        LET out == Flat(last.out)
            bits == RecordBits(db.metadata.record_size)
            node_count == Len(db.nodes)
            fits(k) ==
                \A side \in 1..2 :
                    WBelowPow(NodePtrs(db.nodes[k], W(node_count))[side], bits)
        IN  /\ \A k \in 1..node_count :
                fits(k) => \A side \in 1..2 :
                    ReadPtr(out, bits, k - 1, side - 1)
                        = NodePtrs(db.nodes[k], W(node_count))[side]
            /\ (\A k \in 1..node_count : fits(k)) =>
                    \A addr \in Addresses :
                        ReadWalk(out, bits, node_count, 0, addr, 1)
                            = Lookup(db.nodes, addr)

\* the byte vector v begins with the runs of u: no byte of u changed or moved
StartsWith(v, u) == Len(u) <= Len(v) /\ SubSeq(v, 1, Len(u)) = u

\* what C9 says of one step
C9_Step ==
    /\ StartsWith(db'.data.store, db.data.store)
    /\ (nvalues' # nvalues /\ last'.err = "ok") =>
        /\ last'.index = VLen(db.data.store)
        /\ WLess(last'.index, VLen(db'.data.store))
        /\ last'.index \in refs'
    /\ \A index \in refs : index \in refs' /\ WLess(index, VLen(db'.data.store))

\* C9: insert_value returns the length the store had before the call, which
\* is below its length after it; and no call, insert_value failing or not or
\* insert_node, changes or moves a byte the store already had, so that every
\* DataRef returned stays inside the store, at the start of its value.
C9_RefsStayValid == [][C9_Step]_vars

\* an insert_value that failed after writing part of its value, on a store
\* that already held a value with a DataRef, which a node then took
C9_Witness ==
    /\ nvalues = 2
    /\ refs = {W0}
    /\ WLess(W(2), VLen(db.data.store))
    /\ last.op = "insert_node"
    /\ \E k \in 1..Len(db.nodes), side \in 1..2 : db.nodes[k][side] = TargetData(W0)

\* C10: two Databases built by the same calls, a description of two entries
\* among them, give the same bytes when written.
C10_SameBytes ==
    (last.op = "write_to" /\ twin_last.op = "write_to") => last.out = twin_last.out

\* the number of bytes that extend the length s of a payload
ExtCount(s) == IF s < 29 THEN 0 ELSE IF s < 285 THEN 1 ELSE IF s < 65821 THEN 2 ELSE 3

\* the low five bits of the first control byte for the length s
LowFive(s) == IF s < 29 THEN s ELSE 28 + ExtCount(s)

\* the bytes that extend the length s: s less the threshold, big-endian
ExtBytes(s) ==
    LET n == ExtCount(s)
        rest == s - (CASE n = 0 -> s [] n = 1 -> 29 [] n = 2 -> 285 [] n = 3 -> 65821)
    IN  [i \in 1..n |-> (rest \div 256^(n - i)) % 256]

\* the extended type byte of the type code t, if it has one
ExtType(t) == IF t <= 7 THEN <<>> ELSE <<t - 7>>

\* C11: for every type code t and every size s <= 16843036, write_control
\* writes a first byte whose high three bits are t (0 when t > 7, and then one
\* byte t - 7 is written too) and whose low five bits are s below 29, and 29,
\* 30 or 31 with one, two or three big-endian bytes of s - 29, s - 285 or
\* s - 65821 from there on; 16843036 gives the three bytes FF FF FF.
C11_ControlBytes ==
    (last.op = "write_control" /\ WLeq(last.size, W(16843036))) =>
        LET out == Flat(last.out)
            t == last.type_id
            s == ToInt(last.size)
        IN  /\ last.err = "ok"
            /\ Len(out) = 1 + Len(ExtType(t)) + ExtCount(s)
            /\ out[1] \div 32 = (IF t <= 7 THEN t ELSE 0)
            /\ out[1] % 32 = LowFive(s)
            /\ \/ Tail(out) = ExtType(t) \o ExtBytes(s)
               \/ Tail(out) = ExtBytes(s) \o ExtType(t)
            /\ s = 16843036 => ExtBytes(s) = <<255, 255, 255>>

\* control(String, 16843036) = 5F FF FF FF, as test_write_control has it
C11_Witness ==
    /\ last.op = "write_control"
    /\ last.type_id = TypeString
    /\ last.size = W(16843036)
    /\ Flat(last.out) = <<95, 255, 255, 255>>

\* what C12 says of the bytes after the first one, for t >= 8 and s >= 29:
\* the length's bytes and the type byte, in the order given
C12_Order(type_first) ==
    (/\ last.op = "write_control"
     /\ last.err = "ok"
     /\ last.type_id >= 8
     /\ WLeq(W(29), last.size)) =>
        LET t == last.type_id
            s == ToInt(last.size)
        IN  Tail(Flat(last.out)) =
                IF type_first THEN ExtType(t) \o ExtBytes(s)
                ELSE ExtBytes(s) \o ExtType(t)

\* C12 as stated: the extended type byte comes after the bytes of the length
C12_Original == C12_Order(FALSE)

\* C12, amended: for t >= 8 and s >= 29 write_control writes the first
\* control byte, then the extended type byte t - 7, then the bytes that
\* extend the length; the payload follows.
C12_TypeByteFirst == C12_Order(TRUE)

\* an array of 65822 elements: 1F, the type byte 04, then 00 00 01
C12_Witness ==
    /\ last.op = "write_control"
    /\ last.type_id = TypeArray
    /\ last.size = W(65822)
    /\ Flat(last.out) = <<31, 4, 0, 0, 1>>

\* C13: for every type code write_control fails with LengthOutOfRange, and
\* writes nothing, when s > 16843036, and does not fail so for any smaller s.
C13_LengthLimit ==
    last.op = "write_control" =>
        IF WLess(W(16843036), last.size)
        THEN last.err = "LengthOutOfRange" /\ last.out = <<>>
        ELSE last.err # "LengthOutOfRange"

\* control(String, 16843037) fails
C13_Witness ==
    /\ last.op = "write_control"
    /\ last.type_id = TypeString
    /\ last.size = W(16843037)
    /\ last.err = "LengthOutOfRange"

\* the integer, as limbs, that the bytes b are big-endian
LongOfPayload(b) ==
    LongFromBytes([i \in 1..(3 * LongLimbs) |->
        IF i <= 3 * LongLimbs - Len(b) THEN 0 ELSE b[i - (3 * LongLimbs - Len(b))]])

\* C14: an unsigned integer v of a type of 2, 4, 8 or 16 bytes is written as
\* its control bytes and a payload that is v big-endian without its leading
\* zero bytes: no payload at all for 0, the byte 01 for 1; the length in the
\* control byte is the number of bytes of the payload, and the payload read
\* as a big-endian integer is v.
C14_UnsignedPayload ==
    (last.op = "serialize" /\ last.value.k \in {"u16", "u32", "u64", "u128"}) =>
        LET out == Flat(last.out)
            v == last.value.v
            t == CASE last.value.k = "u16" -> TypeUint16
                   [] last.value.k = "u32" -> TypeUint32
                   [] last.value.k = "u64" -> TypeUint64
                   [] last.value.k = "u128" -> TypeUint128
            head == 1 + Len(ExtType(t))
            payload == SubSeq(out, head + 1, Len(out))
        IN  /\ last.err = "ok"
            /\ Len(out) >= head
            /\ out[1] \div 32 = (IF t <= 7 THEN t ELSE 0)
            /\ SubSeq(out, 2, head) = ExtType(t)
            /\ out[1] % 32 = Len(payload)
            /\ Len(payload) <= WidthOf(last.value.k)
            /\ payload # <<>> => payload[1] # 0
            /\ LongOfPayload(payload) = v
            /\ v = LongOfPayload(<<>>) <=> payload = <<>>
            /\ v = LongOfPayload(<<1>>) <=> payload = <<1>>

\* a u64 of five significant bytes, 01 FF FF FF FF, under its two control
\* bytes
C14_Witness ==
    /\ last.op = "serialize"
    /\ last.value.k = "u64"
    /\ Flat(last.out) = <<5, 2, 1, 255, 255, 255, 255>>

\* the four bytes of the i32 of the given sign and magnitude (a usize), in
\* two's complement, big-endian: those of the magnitude, or for a negative
\* integer the complements of those of the magnitude less one
TwosComplement(neg, mag) ==
    LET m == IF neg THEN WSub(mag, W(1)) ELSE mag
        b == <<m[1] % 256, m[2] \div 65536, (m[2] \div 256) % 256, m[2] % 256>>
    IN  [i \in 1..4 |-> IF neg THEN 255 - b[i] ELSE b[i]]

\* C15: a signed integer is written as an Int32 of exactly 4 bytes, its two's
\* complement big-endian: an i8, i16 or i32 always; an i64 or i128 from -2^31
\* to 2^31 - 1 as the bytes of the i32 equal to it; an i64 or i128 outside
\* fails with IntegerOutOfRange and writes nothing.
C15_SignedAsInt32 ==
    (last.op = "serialize" /\ last.value.k \in {"i8", "i16", "i32", "i64", "i128"}) =>
        LET out == Flat(last.out)
            neg == last.value.neg
            wide == last.value.k \in {"i64", "i128"}
            mag == last.value.mag
            low == IF wide THEN <<mag[Len(mag) - 1], mag[Len(mag)]>> ELSE mag
            inside ==
                /\ wide => \A i \in 1..(Len(mag) - 2) : mag[i] = 0
                /\ low[1] < 128 \/ (neg /\ low = <<128, 0>>)
        IN  IF inside
            THEN /\ last.err = "ok"
                 /\ out = <<4, TypeInt32 - 7>> \o TwosComplement(neg, low)
                 /\ last.out = Serialize([k |-> "i32", neg |-> neg, mag |-> low]).bytes
            ELSE /\ wide
                 /\ last.err = "IntegerOutOfRange"
                 /\ last.out = <<>>

\* the i128 -2^31, written as 80 00 00 00, and so the i64 2^31 that fails
C15_Witness ==
    /\ last.op = "serialize"
    /\ last.value.k = "i128"
    /\ last.value.neg
    /\ Flat(last.out) = <<4, 1, 128, 0, 0, 0>>

\* the address of the octets o, as a number
AddressOf(o) ==
    LET RECURSIVE upto(_)
        upto(i) == IF i = 0 THEN 0 ELSE upto(i - 1) * 256 + o[i]
    IN  upto(Len(o))

\* the number of addresses of a block of the given mask
BlockSize(mask) == 2^(8 * Octets - mask)

\* the addresses of the block <<octets, mask>>
BlockSet(block) ==
    {AddressOf(block[1]) + d : d \in 0..(BlockSize(block[2]) - 1)}

\* C16: for every start and count with start + count <= 2^N,
\* octets_with_mask returns a list of blocks, none for count = 0, each
\* aligned to its size, each beginning where the one before it ends (so
\* disjoint and strictly ascending), the first at start and the last ending
\* at start + count: their union is [start, start + count).
C16_ExactCover ==
    (/\ last.op = "octets_with_mask"
     /\ AddressOf(last.start) + last.count <= AddressSpace) =>
        LET blocks == last.out
            n == Len(blocks)
            first == AddressOf(last.start)
            at(i) == AddressOf(blocks[i][1])
            size(i) == BlockSize(blocks[i][2])
        IN  /\ last.err = "ok"
            /\ last.count = 0 <=> n = 0
            /\ \A i \in 1..n :
                /\ blocks[i][2] \in 0..(8 * Octets)
                /\ at(i) % size(i) = 0
            /\ \A i, j \in 1..n : i < j => at(i) + size(i) <= at(j)
            /\ n > 0 => at(1) = first /\ at(n) + size(n) = first + last.count
            /\ \A i \in 1..(n - 1) : at(i + 1) = at(i) + size(i)
            /\ last.count <= 257 =>
                UNION {BlockSet(blocks[i]) : i \in 1..n}
                    = first..(first + last.count - 1)

\* the aligned blocks <<address, bits>> of 2^bits addresses inside [lo, hi)
AlignedWithin(lo, hi) ==
    {b \in (lo..(hi - 1)) \X (0..(8 * Octets)) :
        b[1] % 2^b[2] = 0 /\ b[1] + 2^b[2] <= hi}

\* the aligned blocks inside [lo, hi) that lie in no larger one inside it:
\* at each size only the first and the last block inside can be one, since
\* any other has its sibling inside too
MaximalBlocks(lo, hi) ==
    LET inside(a, k) == lo <= a /\ a + 2^k <= hi
        ends(k) == {((lo + 2^k - 1) \div 2^k) * 2^k, (hi \div 2^k) * 2^k - 2^k}
    IN  {b \in UNION {ends(k) \X {k} : k \in 0..(8 * Octets)} :
            /\ inside(b[1], b[2])
            /\ ~ (b[2] < 8 * Octets /\ inside(b[1] - (b[1] % 2^(b[2] + 1)), b[2] + 1))}

\* C17: for every start and count with start + count <= 2^N,
\* octets_with_mask returns a list and no set of aligned blocks with fewer
\* elements covers exactly [start, start + count): the list is as long as
\* the set of the maximal aligned blocks inside the range (any cover has a
\* block inside each of them), and for the small counts no set of aligned
\* blocks whose union is the range has fewer elements.
C17_Minimal ==
    (/\ last.op = "octets_with_mask"
     /\ AddressOf(last.start) + last.count <= AddressSpace) =>
        LET lo == AddressOf(last.start)
            hi == lo + last.count
        IN  /\ last.err = "ok"
            /\ Len(last.out) = Cardinality(MaximalBlocks(lo, hi))
            /\ last.count <= MaxBlockCount =>
                \A cover \in SUBSET AlignedWithin(lo, hi) :
                    UNION {b[1]..(b[1] + 2^b[2] - 1) : b \in cover} = lo..(hi - 1)
                        => Len(last.out) <= Cardinality(cover)

\* node 0 exists, and every Node(i) edge stored in node j has j < i < the
\* node count
WellFormed(nodes) ==
    /\ Len(nodes) >= 1
    /\ \A j \in 1..Len(nodes), b \in 1..2 :
        nodes[j][b].t = "Node" =>
            /\ j - 1 < ToInt(nodes[j][b].index)
            /\ ToInt(nodes[j][b].index) < Len(nodes)

\* some insert of a path that is not empty came after an insert of a path
\* it is a proper prefix of
CoarserAfterFiner ==
    \E i, j \in 1..Len(hist) :
        /\ i < j
        /\ hist[j].path # <<>>
        /\ IsProperPrefix(hist[j].path, hist[i].path)

\* C18: after any sequence of inserts node 0 exists and every Node(i) edge
\* stored in node j has j < i < node count (no cycle, no dangling
\* reference), and no insert makes the node count smaller.
C18_AppendOnly ==
    /\ [] WellFormed(db.nodes)
    /\ [][Len(db'.nodes) >= Len(db.nodes)]_vars

\* three nodes or more, after an insert that overwrote an edge to a subtree
C18_Witness ==
    /\ Len(db.nodes) >= 3
    /\ CoarserAfterFiner
    /\ \E j \in 1..Len(db.nodes), b \in 1..2 : db.nodes[j][b].t = "Node"

\* the edges <<node, bit>> that lead to node i
Incoming(nodes, i) ==
    {e \in (1..Len(nodes)) \X (1..2) :
        nodes[e[1]][e[2]].t = "Node" /\ ToInt(nodes[e[1]][e[2]].index) = i}

\* the nodes a walk from the nodes of `seen` reaches
RECURSIVE ReachFrom(_, _)
ReachFrom(nodes, seen) ==
    LET more == {ToInt(nodes[j + 1][b].index) : 
                    <<j, b>> \in {e \in seen \X (1..2) : nodes[e[1] + 1][e[2]].t = "Node"}}
        next == seen \cup {i \in more : i < Len(nodes)}
    IN  IF next = seen THEN seen ELSE ReachFrom(nodes, next)

\* every node but the root is the target of exactly one Node edge and is
\* reachable from the root
SingleTree(nodes) ==
    \A i \in 1..(Len(nodes) - 1) :
        /\ Cardinality(Incoming(nodes, i)) = 1
        /\ i \in ReachFrom(nodes, {0})

\* C19 as stated: after any sequence of inserts every node other than the
\* root is the target of exactly one Node edge and is reachable from the
\* root
C19_Original == SingleTree(db.nodes)

\* C19, amended: after any sequence of inserts every node other than the
\* root is the target of at most one Node edge; every such node is the
\* target of exactly one and is reachable from the root exactly when no
\* insert of a path that is not empty came after an insert of a path it is
\* a proper prefix of.
C19_TreeUnlessOverwritten ==
    /\ \A i \in 1..(Len(db.nodes) - 1) : Cardinality(Incoming(db.nodes, i)) <= 1
    /\ SingleTree(db.nodes) <=> ~CoarserAfterFiner

\* two inserts down different sides, four nodes or more, all of them reached
C19_Witness ==
    /\ Len(hist) >= 2
    /\ ~CoarserAfterFiner
    /\ Len(db.nodes) >= 4
    /\ ReachFrom(db.nodes, {0}) = 0..(Len(db.nodes) - 1)

\* what C20 says of a step insert(path, data)
C20_Step ==
    (Len(hist') = Len(hist) + 1) =>
        LET path == hist'[Len(hist')].path
            data == hist'[Len(hist')].data
            before == db.nodes
            after == db'.nodes
        IN  /\ Len(path) = 0 => after = before
            /\ Len(path) = 1 =>
                after = [before EXCEPT ![1][path[1] + 1] = TargetData(data)]
            /\ Len(path) >= 1 =>
                /\ Len(before) <= Len(after)
                /\ Len(after) - Len(before) <= Len(path) - 1

\* C20: an insert of the empty path leaves the trie unchanged; an insert of
\* a path of one bit sets the root's edge for that bit to Data(ref) and
\* leaves the root's other edge, the other nodes and the node count
\* unchanged; an insert of a path of L >= 1 bits adds at most L - 1 nodes.
C20_ShortInsert == [][C20_Step]_vars

\* a one-bit insert into a trie that already has nodes below the root
C20_Witness ==
    /\ Len(hist) >= 2
    /\ Len(hist[Len(hist)].path) = 1
    /\ Len(db.nodes) >= 3
    /\ db.nodes[1][hist[Len(hist)].path[1] + 1] = TargetData(hist[Len(hist)].data)

\* the largest element of a set of numbers that is not empty
Largest(set) == CHOOSE k \in set : \A other \in set : other <= k

\* C21: after any sequence of inserts insert(p1, d1) ... insert(pn, dn) of
\* paths that are not empty, a reader's walk for an address returns dk for
\* the largest k with pk a prefix of the address, and no data when no pi is
\* a prefix of it.
C21_LastWriterWins ==
    (\A i \in 1..Len(hist) : Len(hist[i].path) >= 1) =>
        \A addr \in Addresses :
            Lookup(db.nodes, addr) =
                IF Covering(hist, addr) = {} THEN NoData
                ELSE Found(hist[Largest(Covering(hist, addr))].data)

\* a coarser prefix inserted after a finer one with other data, beside an
\* address no prefix covers
C21_Witness ==
    /\ Len(hist) >= 2
    /\ \A i \in 1..Len(hist) : Len(hist[i].path) >= 1
    /\ IsProperPrefix(hist[Len(hist)].path, hist[1].path)
    /\ hist[1].data # hist[Len(hist)].data
    /\ \E addr \in Addresses : Covering(hist, addr) = {}
    /\ \E addr \in Addresses :
        /\ IsPrefix(hist[1].path, addr)
        /\ Lookup(db.nodes, addr) = Found(hist[Len(hist)].data)

\* the pointer values write_to packs into the records of the Database
PackedPtrs ==
    {NodePtrs(db.nodes[j], W(Len(db.nodes)))[side] :
        j \in 1..Len(db.nodes), side \in 1..2}

\* C22: after any calls of insert_value and insert_node, with record_size as
\* update_size chose it, every pointer value that write_to packs into a
\* record is below 2^record_size.
C22_PointersFit ==
    \A ptr \in PackedPtrs : WBelowPow(ptr, RecordBits(db.metadata.record_size))

\* the addresses of the first n blocks of a list together
RECURSIVE SizeOfFirst(_, _)
SizeOfFirst(blocks, n) ==
    IF n = 0 THEN 0 ELSE SizeOfFirst(blocks, n - 1) + BlockSize(blocks[n][2])

\* C23: for every start and count with start + count <= 2^N,
\* octets_with_mask returns a list and does not panic; for the all-zero
\* start and count = 2^N the list is the single block (start, /0); every
\* iteration of the loop takes at least one address and no more than are
\* left from count, which is 0 at the end.
C23_Terminates ==
    (/\ last.op = "octets_with_mask"
     /\ AddressOf(last.start) + last.count <= AddressSpace) =>
        /\ last.err = "ok"
        /\ last.count = AddressSpace => last.out = << <<last.start, 0>> >>
        /\ \A i \in 1..Len(last.out) :
            /\ BlockSize(last.out[i][2]) >= 1
            /\ SizeOfFirst(last.out, i) <= last.count
        /\ SizeOfFirst(last.out, Len(last.out)) = last.count

============================================================================
